---------------------------- MODULE Spec2Model ----------------------------
(***************************************************************************)
(* Junction smoothing for vascular tree meshes                             *)
(* (svv/tree/utils/junction_smoothing.py).                                 *)
(*                                                                         *)
(* Coordinates are points of one axis (an integer x); the detector only    *)
(* compares coordinate tuples for equality and the region isolator only    *)
(* uses Euclidean distances, which on one axis are |x - j|.  Vessel and    *)
(* point indices are the Python indices plus one where they index a TLA+   *)
(* sequence; vessel indices stored in junction lists are the Python ones   *)
(* (zero based).                                                           *)
(***************************************************************************)
EXTENDS Integers, Sequences, FiniteSets, TLC

VARIABLES
    pc,               \* position of the running call
    n_calls,          \* calls of the detector made so far
    tree_data,        \* ordered sequence of vessel records
    junctions,        \* detect_junctions: junction id -> list of vessel indices
    junction_points,  \* detect_junctions: junction coordinates, one per id
    stats,            \* get_junction_statistics: the returned dict
    heap,             \* mesh objects: reference -> [points, cells]
    radius_factor,    \* smoothing_radius_factor, a rational <<num, den>>
    smoothed_mesh,    \* reference held by the local smoothed_mesh
    junction_regions, \* identify_junction_regions: list of region meshes
    loop_i,           \* loop index (Python i) of the running for loop
    ret,              \* reference / name of the returned mesh
    error,            \* the exception that left the call, "none" otherwise
    hsize,            \* smooth_junctions_advanced: the hsize local
    mesh_hsize,       \* mesh.hsize, "absent" when the attribute is missing
    n_walls,          \* len(walls) returned by extract_faces
    n_smoothed,       \* len(smoothed_walls)
    boundaries,       \* boundary loops of the single smoothed wall
    caps,             \* caps list built by the remesh loop
    write_ids,        \* write-back statement: region_point_ids
    write_vals        \* write-back statement: smoothed_region.points

vars == <<pc, n_calls, tree_data, junctions, junction_points, stats, heap,
          radius_factor, smoothed_mesh, junction_regions, loop_i, ret, error,
          hsize, mesh_hsize, n_walls, n_smoothed, boundaries, caps,
          write_ids, write_vals>>

detectVars == <<junctions, junction_points, stats, n_calls>>
basicVars == <<heap, radius_factor, smoothed_mesh, junction_regions,
               write_ids, write_vals>>
advVars == <<hsize, mesh_hsize, n_walls, n_smoothed, boundaries, caps>>

----------------------------------------------------------------------------
(* Bounds of the model *)

MaxCoord == 2
MaxVessels == 3
MaxCalls == 2
MaxBranch == 2

Coords == 0..MaxCoord
Vessel == [proximal : Coords, distal : Coords]
TreeInputs == UNION {[1..n -> Vessel] : n \in 0..MaxVessels}

Min(a, b) == IF a <= b THEN a ELSE b
Abs(a) == IF a < 0 THEN -a ELSE a

RECURSIVE SumSeq(_)
SumSeq(s) == IF s = <<>> THEN 0 ELSE Head(s) + SumSeq(Tail(s))

----------------------------------------------------------------------------
(* detect_junctions *)

\* Variant of DictAppend in which a new key goes to the front.
DictAppendFront(d, coord, i) ==
    IF \E k \in 1..Len(d) : d[k].coord = coord
    THEN [k \in 1..Len(d) |->
            IF d[k].coord = coord
            THEN [coord |-> coord, vessels |-> Append(d[k].vessels, i)]
            ELSE d[k]]
    ELSE <<[coord |-> coord, vessels |-> <<i>>]>> \o d

\* point_to_vessels[coord].append(i) on an insertion-ordered defaultdict(list),
\* kept as the sequence of its items: a new key goes to the end.
DictAppend(d, coord, i) ==
    IF \E k \in 1..Len(d) : d[k].coord = coord
    THEN [k \in 1..Len(d) |->
            IF d[k].coord = coord
            THEN [coord |-> coord, vessels |-> Append(d[k].vessels, i)]
            ELSE d[k]]
    ELSE Append(d, [coord |-> coord, vessels |-> <<i>>])

\* The for loop over range(len(tree_data)): the dict after the first n vessels.
RECURSIVE PointToVessels(_, _)
PointToVessels(td, n) ==
    IF n = 0 THEN <<>>
    ELSE DictAppend(DictAppend(PointToVessels(td, n - 1),
                               td[n].proximal, n - 1),
                    td[n].distal, n - 1)

\* Variant of IsJunction that accepts every coordinate.
IsJunctionAny(vessel_list) == Len(vessel_list) > 0

\* len(vessel_list) > 1
IsJunction(vessel_list) == Len(vessel_list) > 1

JunctionItems(td) ==
    SelectSeq(PointToVessels(td, Len(td)), LAMBDA e : IsJunction(e.vessels))

\* The returned pair (dict(junctions), np.array(junction_coords)).
DetectJunctions(td) ==
    LET items == JunctionItems(td)
    IN [junctions |-> [id \in 0..(Len(items) - 1) |-> items[id + 1].vessels],
        junction_points |-> [k \in 1..Len(items) |-> items[k].coord]]

----------------------------------------------------------------------------
(* get_junction_statistics *)

\* np.mean of the list of degrees, kept exact as sum / count.
Mean(s) == [num |-> SumSeq(s), den |-> Len(s)]

Zero == [num |-> 0, den |-> 1]

GetJunctionStatistics(td) ==
    LET det == DetectJunctions(td)
        js == det.junctions
        n == Len(det.junction_points)
        degrees == [k \in 1..n |-> Len(js[k - 1])]
    IN IF n = 0
       THEN [total_junctions |-> 0,
             junction_types |-> <<>>,
             average_vessels_per_junction |-> Zero]
       ELSE [total_junctions |-> n,
             junction_types |->
                 [d \in {degrees[k] : k \in 1..n} |->
                     Cardinality({k \in 1..n : degrees[k] = d})],
             average_vessels_per_junction |-> Mean(degrees),
             junction_coordinates |-> det.junction_points]

----------------------------------------------------------------------------
(* Surface meshes *)

MaxMeshCoord == 3
MaxJunctions == 3

MeshCoords == 0..MaxMeshCoord

\* A mesh point: its coordinate x, and sm, the point coordinates of the region
\* whose smoothing produced the point (<<>> for a point never smoothed).  The
\* smoothing kernel is external: a smoothed point is known only as "point x
\* as smoothed within region sm".
RawPoint(x) == [x |-> x, sm |-> <<>>]

\* The polyline through n points: cell k joins points k and k + 1.
ChainCells(n) == {<<k, k + 1>> : k \in 1..(n - 1)}

SortedSeq(S) ==
    [i \in 1..Cardinality(S) |->
        CHOOSE x \in S : Cardinality({y \in S : y < x}) = i - 1]

MeshOf(S) ==
    [points |-> [k \in 1..Cardinality(S) |-> RawPoint(SortedSeq(S)[k])],
     cells |-> ChainCells(Cardinality(S))]

MeshInputs == {MeshOf(S) : S \in (SUBSET MeshCoords) \ {{}}}

\* Trees handed to the smoothing entry points: a path of vessels through the
\* coordinates s, entering from and leaving to coordinates off the mesh axis.
PathTree(s) ==
    [k \in 1..(Len(s) + 1) |->
        [proximal |-> IF k = 1 THEN -1 ELSE s[k - 1],
         distal |-> IF k = Len(s) + 1 THEN -2 ELSE s[k]]]

InjectiveSeqs(S, n) ==
    {s \in [1..n -> S] : \A a, b \in 1..n : a # b => s[a] # s[b]}

PathTreeInputs ==
    {PathTree(s) : s \in UNION {InjectiveSeqs(MeshCoords, n) : n \in 0..MaxJunctions}}

\* smoothing_radius_factor values tried, as <<numerator, denominator>>:
\* 1/2, 1 and the default 2.
RadiusFactors == {<<1, 2>>, <<1, 1>>, <<2, 1>>}

----------------------------------------------------------------------------
(* identify_junction_regions *)

\* np.linalg.norm(mesh.points - junction_point, axis=1)
Distances(points, jp) == [k \in 1..Len(points) |-> Abs(points[k].x - jp)]

\* distances[distances > 0]
NonZero(points, jp) ==
    LET d == Distances(points, jp)
    IN {d[k] : k \in {i \in 1..Len(points) : d[i] > 0}}

\* np.min raises ValueError on an empty array.
MinRaises(points, jp) == NonZero(points, jp) = {}

MinRadius(points, jp) ==
    LET nz == NonZero(points, jp)
    IN CHOOSE d \in nz : \A e \in nz : d <= e

\* np.where(distances <= min_radius * radius_factor)[0]: ascending indices.
RegionPointIds(points, jp, rf) ==
    LET d == Distances(points, jp)
        min_radius == MinRadius(points, jp)
    IN SortedSeq({k \in 1..Len(points) : d[k] * rf[2] <= min_radius * rf[1]})

\* mesh.extract_points(ids): a new mesh of the selected points, in index
\* order, with the cells among them.
ExtractPoints(m, ids) ==
    [points |-> [k \in 1..Len(ids) |-> m.points[ids[k]]],
     cells |-> {<<a, b>> \in (1..Len(ids)) \X (1..Len(ids)) :
                   <<ids[a], ids[b]>> \in m.cells}]

\* The body of the for loop: the regions emitted for the first n junctions.
RECURSIVE RegionsUpTo(_, _, _, _)
RegionsUpTo(m, jps, rf, n) ==
    IF n = 0 THEN <<>>
    ELSE LET ids == RegionPointIds(m.points, jps[n], rf)
             before == RegionsUpTo(m, jps, rf, n - 1)
         IN IF Len(ids) > 0
            THEN Append(before, ExtractPoints(m, ids))
            ELSE before

IdentifyRaises(m, jps) == \E k \in 1..Len(jps) : MinRaises(m.points, jps[k])

IdentifyJunctionRegions(m, jps, rf) == RegionsUpTo(m, jps, rf, Len(jps))

----------------------------------------------------------------------------
(* smooth_junction_region *)

MinSmoothPoints == 4

\* region_mesh.smooth_taubin(...): same point count, every point moved.
SmoothTaubin(m) ==
    [points |-> [k \in 1..Len(m.points) |->
                    [x |-> m.points[k].x,
                     sm |-> [i \in 1..Len(m.points) |-> m.points[i].x]]],
     cells |-> m.cells]

SmoothJunctionRegion(region) ==
    IF Len(region.points) < MinSmoothPoints THEN region ELSE SmoothTaubin(region)

----------------------------------------------------------------------------
(* apply_junction_smoothing: the write-back *)

\* ids[:m]
Slice(ids, m) == SubSeq(ids, 1, Min(Len(ids), m))

\* buf[idx] = vals raises ValueError unless vals has one row per index or a
\* single row (broadcast).
AssignRaises(idx, vals) == Len(vals) # Len(idx) /\ Len(vals) # 1

\* Variant of AssignPoints that writes at the front of the buffer.
AssignPointsAtFront(buf, idx, vals) ==
    [k \in 1..Len(buf) |->
        IF k <= Len(idx)
        THEN (IF Len(vals) = 1 THEN vals[1] ELSE vals[k])
        ELSE buf[k]]

\* buf[idx] = vals, idx a list of distinct indices.
AssignPoints(buf, idx, vals) ==
    [k \in 1..Len(buf) |->
        IF \E a \in 1..Len(idx) : idx[a] = k
        THEN LET a == CHOOSE a \in 1..Len(idx) : idx[a] = k
             IN IF Len(vals) = 1 THEN vals[1] ELSE vals[a]
        ELSE buf[k]]

\* if len(region_point_ids) > 0 and len(smoothed_region.points) > 0:
\*     smoothed_mesh.points[region_point_ids[:len(smoothed_region.points)]] = smoothed_region.points
WriteBack(buf, ids, vals) ==
    IF Len(ids) > 0 /\ Len(vals) > 0
    THEN IF AssignRaises(Slice(ids, Len(vals)), vals)
         THEN [raises |-> TRUE, points |-> buf]
         ELSE [raises |-> FALSE,
               points |-> AssignPoints(buf, Slice(ids, Len(vals)), vals)]
    ELSE [raises |-> FALSE, points |-> buf]

\* One pass of the loop body for the pair (i, region), i the Python index.
LoopBody(buf, m, jps, rf, regions, i) ==
    IF Len(regions[i + 1].points) = 0
    THEN [raises |-> FALSE, points |-> buf]
    ELSE IF MinRaises(m.points, jps[i + 1])
    THEN [raises |-> TRUE, points |-> buf]
    ELSE WriteBack(buf,
                   RegionPointIds(m.points, jps[i + 1], rf),
                   SmoothJunctionRegion(regions[i + 1]).points)

\* Variant of MeshCopy that hands back the same object.
MeshCopyAlias(h, r) == [heap |-> h, ref |-> r]

\* mesh.copy(): a new object holding a deep copy.

MeshCopy(h, r) ==
    [heap |-> [o \in DOMAIN h \cup {"copy"} |-> IF o = "copy" THEN h[r] ELSE h[o]],
     ref |-> "copy"]

\* The for loop with its (i, region) pairs taken in the given order; the
\* code takes them in the order 0, 1, ..., len(junction_regions) - 1.
RECURSIVE LoopRun(_, _, _, _, _, _)
LoopRun(buf, m, jps, rf, regions, order) ==
    IF order = <<>> THEN [raises |-> FALSE, points |-> buf]
    ELSE LET first == LoopBody(buf, m, jps, rf, regions, Head(order))
         IN IF first.raises THEN first
            ELSE LoopRun(first.points, m, jps, rf, regions, Tail(order))

\* smoothed_mesh.compute_normals(...), then pymeshfix repair: new objects.
Finalize(h, r) ==
    [o \in DOMAIN h \cup {"fixed"} |->
        IF o = "fixed"
        THEN [points |-> h[r].points, cells |-> h[r].cells, repaired |-> TRUE]
        ELSE h[o]]

----------------------------------------------------------------------------
(* Initial states *)

NoMesh == [input |-> MeshOf({0, 1})]

InitCommon ==
    /\ pc = "start"
    /\ n_calls = 0
    /\ junctions = <<>>
    /\ junction_points = <<>>
    /\ stats = <<>>
    /\ smoothed_mesh = "none"
    /\ junction_regions = <<>>
    /\ loop_i = 0
    /\ ret = "none"
    /\ error = "none"
    /\ n_walls = 0
    /\ n_smoothed = 0
    /\ boundaries = <<>>
    /\ caps = <<>>

InitNoMesh ==
    /\ heap = NoMesh
    /\ radius_factor = <<2, 1>>
    /\ write_ids = <<>>
    /\ write_vals = <<>>

InitNoAdv ==
    /\ hsize = "None"
    /\ mesh_hsize = "absent"

----------------------------------------------------------------------------
(* Calls of detect_junctions and get_junction_statistics *)

InitDetect ==
    /\ InitCommon /\ InitNoMesh /\ InitNoAdv
    /\ tree_data \in TreeInputs

CallDetectJunctions ==
    /\ pc \in {"start", "detected"}
    /\ n_calls < MaxCalls
    /\ junctions' = DetectJunctions(tree_data).junctions
    /\ junction_points' = DetectJunctions(tree_data).junction_points
    /\ n_calls' = n_calls + 1
    /\ pc' = "detected"
    /\ UNCHANGED <<tree_data, stats, loop_i, ret, error, basicVars, advVars>>

CallGetJunctionStatistics ==
    /\ pc \in {"start", "detected"}
    /\ stats' = GetJunctionStatistics(tree_data)
    /\ pc' = "stats"
    /\ UNCHANGED <<tree_data, junctions, junction_points, n_calls, loop_i, ret,
                   error, basicVars, advVars>>

NextDetect == CallDetectJunctions \/ CallGetJunctionStatistics

SpecDetect == InitDetect /\ [][NextDetect]_vars

----------------------------------------------------------------------------
(* Branching trees *)

\* Vessel v of td gets two children leaving its distal point for c1 and c2.
Bifurcate(td, v, c1, c2) ==
    td \o <<[proximal |-> td[v].distal, distal |-> c1],
            [proximal |-> td[v].distal, distal |-> c2]>>

LeafVessels(td) ==
    {v \in 1..Len(td) : \A w \in 1..Len(td) : td[w].proximal # td[v].distal}

\* The trees with k branch points grown from the root vessel (0 -> 1); the
\* n vessels of a tree use the coordinates 0..n, all distinct.
RECURSIVE GrownTrees(_)
GrownTrees(k) ==
    IF k = 0 THEN {<<[proximal |-> 0, distal |-> 1]>>}
    ELSE {Bifurcate(t, v, Len(t) + 1, Len(t) + 2) :
            <<t, v>> \in {<<t, v>> \in GrownTrees(k - 1) \X (1..(2 * k - 1)) :
                            v \in LeafVessels(t)}}

\* The vessels of a grown tree in any storage order.
Reordered(t) == {[i \in 1..Len(t) |-> t[p[i]]] : p \in Permutations(1..Len(t))}

BranchingTreeInputs ==
    UNION {Reordered(t) : t \in UNION {GrownTrees(k) : k \in 1..MaxBranch}}

InitTree ==
    /\ InitCommon /\ InitNoMesh /\ InitNoAdv
    /\ tree_data \in BranchingTreeInputs

SpecTree == InitTree /\ [][NextDetect]_vars

----------------------------------------------------------------------------
(* Properties of the detector and of the statistics *)

\* The endpoint coordinates in the order the single pass inserts them:
\* proximal then distal of vessel 0, of vessel 1, ...
Endpoints(td) ==
    [k \in 1..(2 * Len(td)) |->
        IF k % 2 = 1 THEN td[(k + 1) \div 2].proximal ELSE td[k \div 2].distal]

FirstSeen(td, c) ==
    LET e == Endpoints(td)
    IN CHOOSE k \in 1..Len(e) : e[k] = c /\ \A j \in 1..(k - 1) : e[j] # c

\* The vessel index of every endpoint equal to c, in pass order.
VesselsAt(td, c) ==
    LET e == Endpoints(td)
        pos == SortedSeq({k \in 1..Len(e) : e[k] = c})
    IN [a \in 1..Len(pos) |-> ((pos[a] + 1) \div 2) - 1]

\* Distinct vessel indices whose proximal or distal point equals c.
TouchingVessels(td, c) ==
    {v - 1 : v \in {w \in 1..Len(td) : td[w].proximal = c \/ td[w].distal = c}}

Range(s) == {s[k] : k \in DOMAIN s}

\* C1: every junction emitted by detect_junctions is touched by at least two
\* distinct vessels (degree >= 2); a coordinate touched by one vessel only is
\* never a junction.
C1_JunctionDegreeAtLeastTwo ==
    pc = "detected" =>
        \A k \in 1..Len(junction_points) :
            Cardinality(TouchingVessels(tree_data, junction_points[k])) >= 2

StatsItems ==
    {"total_junctions", "junction_types", "average_vessels_per_junction",
     "junction_coordinates"}

\* C3: the record returned by get_junction_statistics holds all four items
\* (count, degree histogram, mean degree, coordinates), also when there are
\* no junctions, where the mean is 0.
C3_StatsHasAllFourItems ==
    pc = "stats" =>
        /\ DOMAIN stats = StatsItems
        /\ (stats.total_junctions = 0 =>
                stats.average_vessels_per_junction = Zero)

\* Branch points of a tree: the distal point of some vessel that is also the
\* proximal point of some vessel.
BranchPoints(td) ==
    {c \in Range(Endpoints(td)) :
        /\ \E v \in 1..Len(td) : td[v].distal = c
        /\ \E w \in 1..Len(td) : td[w].proximal = c}

Parents(td, c) == {v - 1 : v \in {w \in 1..Len(td) : td[w].distal = c}}

Children(td, c) == {v - 1 : v \in {w \in 1..Len(td) : td[w].proximal = c}}

\* C4: on a branching tree (every branch point the distal point of one parent
\* and the proximal point of two children, all other endpoints distinct) the
\* detector returns exactly one junction per branch point, of degree 3, holding
\* the parent and the two children; the statistics report that many junctions,
\* all of degree 3, with mean degree 3.
C4_BranchingTree ==
    LET bp == BranchPoints(tree_data)
    IN /\ pc = "detected" =>
            /\ Len(junction_points) = Cardinality(bp)
            /\ Range(junction_points) = bp
            /\ \A k \in 1..Len(junction_points) :
                  /\ Len(junctions[k - 1]) = 3
                  /\ Range(junctions[k - 1]) =
                        Parents(tree_data, junction_points[k])
                          \cup Children(tree_data, junction_points[k])
                  /\ Cardinality(Parents(tree_data, junction_points[k])) = 1
                  /\ Cardinality(Children(tree_data, junction_points[k])) = 2
       /\ pc = "stats" =>
            /\ stats.total_junctions = Cardinality(bp)
            /\ DOMAIN stats.junction_types = {3}
            /\ stats.junction_types[3] = Cardinality(bp)
            /\ stats.average_vessels_per_junction.num =
                  3 * stats.average_vessels_per_junction.den

\* The five-vessel tree: two branch points, detected and reported.
C4_Witness ==
    /\ pc = "stats"
    /\ Len(tree_data) = 5
    /\ Cardinality(BranchPoints(tree_data)) = 2
    /\ stats.total_junctions = 2

\* C5 (state part): junction ids are 0..n-1 without gaps, in the order their
\* coordinates are first seen in the pass; the k-th coordinate returned is the
\* coordinate of junction id k, whose list holds the vessels of the endpoints
\* equal to it; every coordinate with two or more endpoints is a junction.
C5_FirstSeenOrder ==
    pc = "detected" =>
        /\ DOMAIN junctions = 0..(Len(junction_points) - 1)
        /\ \A a, b \in 1..Len(junction_points) :
              a < b => FirstSeen(tree_data, junction_points[a])
                         < FirstSeen(tree_data, junction_points[b])
        /\ \A k \in 1..Len(junction_points) :
              /\ junctions[k - 1] = VesselsAt(tree_data, junction_points[k])
              /\ Len(junctions[k - 1]) >= 2
        /\ \A c \in Range(Endpoints(tree_data)) :
              Len(VesselsAt(tree_data, c)) >= 2 => c \in Range(junction_points)

----------------------------------------------------------------------------
(* apply_junction_smoothing *)

InitBasic ==
    /\ InitCommon /\ InitNoAdv
    /\ tree_data \in PathTreeInputs
    /\ heap \in {[input |-> m] : m \in MeshInputs}
    /\ radius_factor \in RadiusFactors
    /\ write_ids = <<>>
    /\ write_vals = <<>>

\* detect_junctions, and the early return when there are no junctions.
ApplyDetect ==
    /\ pc = "start"
    /\ junctions' = DetectJunctions(tree_data).junctions
    /\ junction_points' = DetectJunctions(tree_data).junction_points
    /\ IF Len(DetectJunctions(tree_data).junction_points) = 0
       THEN ret' = "input" /\ pc' = "returned"
       ELSE ret' = ret /\ pc' = "copy"
    /\ UNCHANGED <<tree_data, stats, n_calls, loop_i, error, basicVars, advVars>>

\* smoothed_mesh = mesh.copy()
ApplyCopy ==
    /\ pc = "copy"
    /\ heap' = MeshCopy(heap, "input").heap
    /\ smoothed_mesh' = MeshCopy(heap, "input").ref
    /\ pc' = "regions"
    /\ UNCHANGED <<tree_data, detectVars, radius_factor, junction_regions,
                   write_ids, write_vals, loop_i, ret, error, advVars>>

\* junction_regions = identify_junction_regions(mesh, junction_points, factor)
ApplyIdentifyRegions ==
    /\ pc = "regions"
    /\ IF IdentifyRaises(heap["input"], junction_points)
       THEN /\ pc' = "raised"
            /\ error' = "ValueError: min of empty array"
            /\ UNCHANGED junction_regions
       ELSE /\ junction_regions' =
                  IdentifyJunctionRegions(heap["input"], junction_points,
                                          radius_factor)
            /\ pc' = "loop"
            /\ UNCHANGED error
    /\ loop_i' = 0
    /\ UNCHANGED <<tree_data, detectVars, heap, radius_factor, smoothed_mesh,
                   write_ids, write_vals, ret, advVars>>

\* One iteration of "for i, region in enumerate(junction_regions)".
ApplyLoopStep ==
    /\ pc = "loop"
    /\ loop_i < Len(junction_regions)
    /\ LET r == LoopBody(heap[smoothed_mesh].points, heap["input"],
                         junction_points, radius_factor, junction_regions,
                         loop_i)
       IN IF r.raises
          THEN /\ pc' = "raised"
               /\ error' = "ValueError: shape mismatch"
               /\ UNCHANGED <<heap, loop_i>>
          ELSE /\ heap' = [heap EXCEPT ![smoothed_mesh].points = r.points]
               /\ loop_i' = loop_i + 1
               /\ UNCHANGED <<pc, error>>
    /\ UNCHANGED <<tree_data, detectVars, radius_factor, smoothed_mesh,
                   junction_regions, write_ids, write_vals, ret, advVars>>

\* After the loop: compute_normals, MeshFix repair, return smoothed_mesh.
ApplyFinish ==
    /\ pc = "loop"
    /\ loop_i = Len(junction_regions)
    /\ heap' = Finalize(heap, smoothed_mesh)
    /\ smoothed_mesh' = "fixed"
    /\ ret' = "fixed"
    /\ pc' = "returned"
    /\ UNCHANGED <<tree_data, detectVars, radius_factor, junction_regions,
                   write_ids, write_vals, loop_i, error, advVars>>

NextBasic ==
    \/ ApplyDetect
    \/ ApplyCopy
    \/ ApplyIdentifyRegions
    \/ ApplyLoopStep
    \/ ApplyFinish

SpecBasic == InitBasic /\ [][NextBasic]_vars

----------------------------------------------------------------------------
(* The write-back statement on its own, for every pair of lengths *)

MaxWriteVals == 3

AscendingSeqs(n) == {SortedSeq(S) : S \in SUBSET (1..n)}

\* The points of a smoothed region of n points.
SmoothedVals(n) == SmoothTaubin(MeshOf(0..(n - 1))).points

InitWrite ==
    /\ InitCommon /\ InitNoAdv
    /\ tree_data = <<>>
    /\ radius_factor = <<2, 1>>
    /\ heap \in {[o \in {"input", "copy"} |-> m] : m \in MeshInputs}
    /\ write_ids \in AscendingSeqs(MaxMeshCoord + 1)
    /\ Len(write_ids) > 0 => write_ids[Len(write_ids)] <= Len(heap["input"].points)
    /\ write_vals \in {SmoothedVals(n) : n \in 0..MaxWriteVals}

WriteBackStatement ==
    /\ pc = "start"
    /\ LET r == WriteBack(heap["copy"].points, write_ids, write_vals)
       IN IF r.raises
          THEN /\ pc' = "raised"
               /\ error' = "ValueError: shape mismatch"
               /\ UNCHANGED heap
          ELSE /\ heap' = [heap EXCEPT !["copy"].points = r.points]
               /\ pc' = "written"
               /\ UNCHANGED error
    /\ UNCHANGED <<tree_data, detectVars, radius_factor, smoothed_mesh,
                   junction_regions, write_ids, write_vals, loop_i, ret, advVars>>

NextWrite == WriteBackStatement

SpecWrite == InitWrite /\ [][NextWrite]_vars

----------------------------------------------------------------------------
(* Properties of the basic path *)

\* C7: apply_junction_smoothing never changes the caller's mesh object (point
\* buffer and topology), and with no junctions it returns that very mesh.
C7_InputMeshNeverMutated ==
    /\ [][heap'["input"] = heap["input"]]_vars
    /\ [](pc = "returned" /\ Len(junction_points) = 0 => ret = "input")

\* A call that returned a mesh whose points differ from the input's.
C7_Witness ==
    /\ pc = "returned"
    /\ ret = "fixed"
    /\ heap["fixed"].points # heap["input"].points

\* C8: for every pair of lengths the write-back completes without failing and
\* overwrites exactly the first min(len(region_indices), len(smoothed points))
\* entries of the index set.
C8_WriteBackOverwritesMin ==
    pc # "start" =>
        /\ pc = "written"
        /\ LET n == Min(Len(write_ids), Len(write_vals))
           IN \A k \in 1..Len(heap["copy"].points) :
                 heap["copy"].points[k] =
                    IF \E a \in 1..n : write_ids[a] = k
                    THEN write_vals[CHOOSE a \in 1..n : write_ids[a] = k]
                    ELSE heap["input"].points[k]

LoopDone == pc = "loop" /\ loop_i = Len(junction_regions)

\* Every order in which the (i, region) pairs of the loop can be taken.
Orders ==
    {[k \in 1..Len(junction_regions) |-> p[k] - 1] :
        p \in Permutations(1..Len(junction_regions))}

RunInOrder(order) ==
    LoopRun(heap["input"].points, heap["input"], junction_points,
            radius_factor, junction_regions, order)

\* The point indices the loop writes for the pair (i, region).
WrittenIds(i) ==
    LET ids == RegionPointIds(heap["input"].points, junction_points[i + 1],
                              radius_factor)
        vals == SmoothJunctionRegion(junction_regions[i + 1]).points
    IN IF Len(ids) > 0 /\ Len(vals) > 0
       THEN Range(Slice(ids, Len(vals)))
       ELSE {}

DisjointWrites ==
    \A a, b \in 0..(Len(junction_regions) - 1) :
        a # b => WrittenIds(a) \cap WrittenIds(b) = {}

C10_RegionsPairedWithOwnJunction ==
    pc = "loop" =>
        \A i \in 1..Len(junction_regions) :
            /\ ~MinRaises(heap["input"].points, junction_points[i])
            /\ junction_regions[i] =
                  ExtractPoints(heap["input"],
                                RegionPointIds(heap["input"].points,
                                               junction_points[i],
                                               radius_factor))

----------------------------------------------------------------------------
(* smooth_junctions_advanced *)

MaxWalls == 2
MaxLoops == 3

\* boundary_polydata.n_points < 3: too few points for remeshing.
MinRemeshPoints == 3

\* A boundary loop returned by split_bodies: its point count, and whether the
\* object has a faces attribute (PolyData) or needs extract_surface().
BoundaryLoop ==
    [n_points : {MinRemeshPoints - 1, MinRemeshPoints}, has_faces : BOOLEAN]

BoundaryInputs == UNION {[1..n -> BoundaryLoop] : n \in 0..MaxLoops}

AdvTreeInputs ==
    {PathTree(s) : s \in InjectiveSeqs(MeshCoords, 0) \cup InjectiveSeqs(MeshCoords, 1)}

InitAdv ==
    /\ InitCommon /\ InitNoMesh
    /\ tree_data \in AdvTreeInputs
    /\ hsize \in {"None", "caller"}
    /\ mesh_hsize \in {"absent", "mesh"}

\* hsize = mesh.hsize if hasattr(mesh, 'hsize') else 0.1, when hsize is None
DefaultHsize(h, mh) ==
    IF h = "None" THEN (IF mh # "absent" THEN mh ELSE "0.1") ELSE h

\* The cap entry for loop i: the loop itself as PolyData (boundary), or the
\* remeshed cap.
\* The loop is appended as it is when it has faces, else its extract_surface().
BoundaryEntry(b, i) ==
    [kind |-> "boundary", loop |-> i, n_points |-> b.n_points,
     surface |-> IF b.has_faces THEN "boundary" ELSE "extract_surface"]

CapEntry(b, i) ==
    [kind |-> "cap", loop |-> i, n_points |-> b.n_points,
     surface |-> "remesh_surface"]

\* Variant of RemeshFallback that appends nothing.
RemeshFallbackDropped(cs, b, i) == cs

\* except Exception: caps.append(boundary) / caps.append(boundary.extract_surface())

RemeshFallback(cs, b, i) == Append(cs, BoundaryEntry(b, i))

\* The try block of the remesh loop for loop i.
RemeshBody(cs, b, i, remesh_raises) ==
    IF b.n_points < MinRemeshPoints
    THEN Append(cs, BoundaryEntry(b, i))
    ELSE IF remesh_raises
    THEN RemeshFallback(cs, b, i)
    ELSE Append(cs, CapEntry(b, i))

\* First try block: detect_junctions raises, or finds no junction, or goes on.
AdvDetect ==
    /\ pc = "start"
    /\ \E raises \in BOOLEAN :
          IF raises
          THEN /\ ret' = "input" /\ pc' = "returned"
               /\ UNCHANGED <<junctions, junction_points>>
          ELSE /\ junctions' = DetectJunctions(tree_data).junctions
               /\ junction_points' = DetectJunctions(tree_data).junction_points
               /\ IF Len(DetectJunctions(tree_data).junction_points) = 0
                  THEN ret' = "input" /\ pc' = "returned"
                  ELSE ret' = ret /\ pc' = "extract_faces"
    /\ UNCHANGED <<tree_data, stats, n_calls, loop_i, error, basicVars, advVars>>

\* Second try block: extract_faces raises, or returns w wall patches.
AdvExtractFaces ==
    /\ pc = "extract_faces"
    /\ \E raises \in BOOLEAN, w \in 0..MaxWalls :
          IF raises \/ w = 0
          THEN /\ ret' = "input" /\ pc' = "returned"
               /\ UNCHANGED n_walls
          ELSE /\ n_walls' = w /\ pc' = "smooth_walls"
               /\ UNCHANGED ret
    /\ UNCHANGED <<tree_data, detectVars, loop_i, error, basicVars, hsize,
                   mesh_hsize, n_smoothed, boundaries, caps>>

\* One iteration of "for wall in walls": wall.smooth_taubin(...), not in a try.
AdvSmoothWall ==
    /\ pc = "smooth_walls"
    /\ n_smoothed < n_walls
    /\ \E raises \in BOOLEAN :
          IF raises
          THEN /\ pc' = "raised"
               /\ error' = "smooth_taubin"
               /\ UNCHANGED n_smoothed
          ELSE /\ n_smoothed' = n_smoothed + 1
               /\ UNCHANGED <<pc, error>>
    /\ UNCHANGED <<tree_data, detectVars, loop_i, ret, basicVars, hsize,
                   mesh_hsize, n_walls, boundaries, caps>>

\* len(smoothed_walls) == 1: extract_feature_edges and split_bodies.
AdvExtractBoundaries ==
    /\ pc = "smooth_walls"
    /\ n_smoothed = n_walls
    /\ n_smoothed = 1
    /\ boundaries' \in BoundaryInputs
    /\ caps' = <<>>
    /\ loop_i' = 0
    /\ pc' = "caps"
    /\ UNCHANGED <<tree_data, detectVars, ret, error, basicVars, hsize,
                   mesh_hsize, n_walls, n_smoothed>>

\* One iteration of "for i, boundary in enumerate(boundaries)".
AdvRemeshLoop ==
    /\ pc = "caps"
    /\ loop_i < Len(boundaries)
    /\ hsize' = DefaultHsize(hsize, mesh_hsize)
    /\ \E remesh_raises \in BOOLEAN :
          caps' = RemeshBody(caps, boundaries[loop_i + 1], loop_i, remesh_raises)
    /\ loop_i' = loop_i + 1
    /\ UNCHANGED <<tree_data, detectVars, pc, ret, error, basicVars,
                   mesh_hsize, n_walls, n_smoothed, boundaries>>

\* Last try block: pv.merge of the wall and the caps, or the input mesh.
AdvMerge ==
    /\ pc = "caps"
    /\ loop_i = Len(boundaries)
    /\ \E raises \in BOOLEAN :
          ret' = IF raises THEN "input" ELSE "merged"
    /\ pc' = "returned"
    /\ UNCHANGED <<tree_data, detectVars, loop_i, error, basicVars, advVars>>

\* else branch: pv.merge(smoothed_walls) and mesh.hsize, not in a try.
AdvMergeWalls ==
    /\ pc = "smooth_walls"
    /\ n_smoothed = n_walls
    /\ n_smoothed > 1
    /\ \E raises \in BOOLEAN :
          IF raises
          THEN pc' = "raised" /\ error' = "pv.merge" /\ UNCHANGED ret
          ELSE IF hsize = "None" /\ mesh_hsize = "absent"
          THEN pc' = "raised" /\ error' = "AttributeError: hsize" /\ UNCHANGED ret
          ELSE pc' = "returned" /\ ret' = "merged_walls" /\ UNCHANGED error
    /\ UNCHANGED <<tree_data, detectVars, loop_i, basicVars, advVars>>

NextAdv ==
    \/ AdvDetect
    \/ AdvExtractFaces
    \/ AdvSmoothWall
    \/ AdvExtractBoundaries
    \/ AdvRemeshLoop
    \/ AdvMerge
    \/ AdvMergeWalls

SpecAdv == InitAdv /\ [][NextAdv]_vars

----------------------------------------------------------------------------
(* Properties of the advanced path *)

\* C2: whatever the collaborators do, smooth_junctions_advanced returns a mesh
\* and no failure leaves the call.
C2_NeverPropagatesFailure == pc # "raised"

\* C6: in the single-wall branch there is exactly one cap entry per boundary
\* loop processed, entry k for loop k: the loop itself when it has fewer than
\* 3 points, else the remeshed cap or (remesher failed) the loop itself; so
\* the loops after a failing one are processed and all loops have a cap at
\* the end.
C6_OneCapPerLoop ==
    pc = "caps" =>
        /\ Len(caps) = loop_i
        /\ \A k \in 1..Len(caps) :
              /\ caps[k].loop = k - 1
              /\ caps[k].n_points = boundaries[k].n_points
              /\ boundaries[k].n_points < MinRemeshPoints =>
                    caps[k].kind = "boundary"
        /\ loop_i = Len(boundaries) => Len(caps) = Len(boundaries)

\* All loops done, the remesher having failed on a loop that a remeshed loop
\* follows.
C6_Witness ==
    /\ pc = "caps"
    /\ loop_i = Len(boundaries)
    /\ \E a, b \in 1..Len(caps) :
          /\ a < b
          /\ caps[a].kind = "boundary"
          /\ boundaries[a].n_points >= MinRemeshPoints
          /\ caps[b].kind = "cap"

============================================================================
